---- MODULE Spec2Model ----
(***************************************************************************)
(* Model of the voting application: the Flask intake (vote/app.py) pushes  *)
(* votes on the Redis list "votes"; the worker (worker/worker.py) pops     *)
(* them and upserts a per-option count in the PostgreSQL table "votes".    *)
(*                                                                         *)
(* A Python str is a sequence of code points, a Python bytes object a      *)
(* sequence of byte values 0..255.  An optional value (request.form.get,   *)
(* a worker's local variable) is a sequence of length 0 (None) or 1.       *)
(***************************************************************************)
EXTENDS Integers, Sequences, FiniteSets, TLC

VARIABLES
    queue,        \* the Redis list "votes": head = left end, entries are bytes
    qid,          \* history: the identity of each entry of queue (same length)
    redisUp,      \* the queue store is reachable
    dbUp,         \* the persisted store is reachable
    tableExists,  \* the table "votes" exists in the persisted store
    votes,        \* committed rows of the table: option (str) -> count
    pc,           \* per worker process: where it is in main()
    conn,         \* per worker: state of the psycopg2 connection
    val,          \* per worker: the entry returned by brpop (optional bytes)
    valId,        \* history: identity of the entry in val (0 = none)
    popOk,        \* history: per worker, the persisted store has been
                  \* reachable ever since the entry in val was popped
    txn,          \* per worker: row written by the open transaction (optional)
    creating,     \* per worker: its open transaction has created the table
    timer,        \* per worker: time units left of the current time.sleep
    nreq,         \* number of HTTP requests handled by the intake
    req,          \* the last HTTP request handled
    resp,         \* the response to it
    submitted,    \* history: per form value, how many POST /vote carried it
    accepted,     \* history: per option, how many votes the intake pushed
    delivered,    \* history: per entry identity, the workers whose pops returned it
    faults,       \* number of outages and process kills so far
    queue0,       \* history: the queue at the start
    votes0        \* history: the table rows at the start

vars == <<queue, qid, redisUp, dbUp, tableExists, votes, pc, conn, val, valId,
          popOk, txn, creating, timer, nreq, req, resp, submitted, accepted, delivered,
          faults, queue0, votes0>>

-----------------------------------------------------------------------------
(* Bounds of the model *)

MaxRequests == 2
MaxInitQueue == 3
MaxInitCount == 1
MaxFaults == 2
MaxVotes == 4
MaxBacklog == 2

-----------------------------------------------------------------------------
(* Strings and bytes *)

Cats == <<99, 97, 116, 115>>
Dogs == <<100, 111, 103, 115>>
Elephants == <<101, 108, 101, 112, 104, 97, 110, 116, 115>>

None == <<>>
Some(x) == <<x>>

\* ("cats", "dogs"), the tuple both components test membership in
Options == {Cats, Dogs}

\* str.encode("utf-8") of one code point (surrogates excluded)
Utf8EncodeChar(c) ==
    IF c < 128 THEN <<c>>
    ELSE IF c < 2048 THEN <<192 + (c \div 64), 128 + (c % 64)>>
    ELSE IF c < 65536
         THEN <<224 + (c \div 4096), 128 + ((c \div 64) % 64), 128 + (c % 64)>>
    ELSE <<240 + (c \div 262144), 128 + ((c \div 4096) % 64),
           128 + ((c \div 64) % 64), 128 + (c % 64)>>

RECURSIVE Utf8Encode(_)
Utf8Encode(s) ==
    IF s = <<>> THEN <<>> ELSE Utf8EncodeChar(Head(s)) \o Utf8Encode(Tail(s))

IsCont(b) == b >= 128 /\ b <= 191

\* number of bytes of the well-formed UTF-8 sequence starting at b[i], 0 if none
Utf8SeqLen(b, i) ==
    LET b0 == b[i]
        n  == Len(b)
        lo2 == IF b0 = 224 THEN 160 ELSE IF b0 = 240 THEN 144 ELSE 128
        hi2 == IF b0 = 237 THEN 159 ELSE IF b0 = 244 THEN 143 ELSE 191
    IN  IF b0 < 128 THEN 1
        ELSE IF b0 >= 194 /\ b0 <= 223
             THEN IF i + 1 <= n /\ IsCont(b[i + 1]) THEN 2 ELSE 0
        ELSE IF b0 >= 224 /\ b0 <= 239
             THEN IF i + 2 <= n /\ b[i + 1] >= lo2 /\ b[i + 1] <= hi2
                     /\ IsCont(b[i + 2])
                  THEN 3 ELSE 0
        ELSE IF b0 >= 240 /\ b0 <= 244
             THEN IF i + 3 <= n /\ b[i + 1] >= lo2 /\ b[i + 1] <= hi2
                     /\ IsCont(b[i + 2]) /\ IsCont(b[i + 3])
                  THEN 4 ELSE 0
        ELSE 0

Utf8CodePoint(b, i, k) ==
    IF k = 1 THEN b[i]
    ELSE IF k = 2 THEN (b[i] - 192) * 64 + (b[i + 1] - 128)
    ELSE IF k = 3
         THEN (b[i] - 224) * 4096 + (b[i + 1] - 128) * 64 + (b[i + 2] - 128)
    ELSE (b[i] - 240) * 262144 + (b[i + 1] - 128) * 4096
         + (b[i + 2] - 128) * 64 + (b[i + 3] - 128)

\* bytes.decode("utf-8") from position i, acc being the text decoded so far:
\* [ok, str]; ok = FALSE is UnicodeDecodeError
RECURSIVE Utf8DecodeFrom(_, _, _)
Utf8DecodeFrom(b, i, acc) ==
    IF i > Len(b) THEN [ok |-> TRUE, str |-> acc]
    ELSE LET k == Utf8SeqLen(b, i)
         IN  IF k = 0 THEN [ok |-> FALSE, str |-> <<>>]
             ELSE Utf8DecodeFrom(b, i + k, Append(acc, Utf8CodePoint(b, i, k)))

Utf8Decode(b) == Utf8DecodeFrom(b, 1, <<>>)

\* a byte string that is not UTF-8
BadBytes == <<255>>

-----------------------------------------------------------------------------
(* Inputs *)

\* request.form of a POST /vote: the field "vote" may be missing
Forms == {<<>>} \cup {[vote |-> s] : s \in {Cats, Dogs, Elephants}}

\* entries another client of the queue store may have left on the list
RawEntries == {Utf8Encode(Cats), Utf8Encode(Dogs), Utf8Encode(Elephants),
               BadBytes}

Workers == {1, 2}

\* a worker process that is not part of the deployment stays "off"
WorkerPcs == {"off", "get_conn", "conn_sleep", "ensure_table", "ensure_wait",
              "ensure_commit", "brpop", "process", "commit", "sleep",
              "crashed"}

\* time.sleep(2) in get_conn, time.sleep(1) in main's except clause
GetConnSleep == 2
LoopSleep == 1

RedisErrorText == "Error connecting to redis"

NoRows == [o \in {} |-> 0]

-----------------------------------------------------------------------------
(* Queue store: the list operations the two components use *)

\* bug: rpush, the new entry goes to the end the worker pops from
PushTail(q, e) == Append(q, e)

\* LPUSH of one entry: it becomes the new head of the list
PushHead(q, e) == <<e>> \o q

\* r.lpush("votes", v): the value is sent encoded
LPush(q, v) == PushHead(q, Utf8Encode(v))

\* r.brpop("votes") with a non-empty list: the tail entry is returned ...
BRPopValue(q) == q[Len(q)]

\* bug: the tail entry is read but left on the list
BRPopLeavesEntry(q) == q

\* bug: the worker reads the whole list and deletes it, keeping the last entry
BRPopTakesAll(q) == <<>>

\* ... and removed
BRPopRest(q) == SubSeq(q, 1, Len(q) - 1)

-----------------------------------------------------------------------------
(* Vote intake (vote/app.py) *)

\* request.form.get("vote")
FormGet(form, key) == IF key \in DOMAIN form THEN Some(form[key]) ELSE None

\* bug: only a missing field is rejected
VoteAcceptsAnyValue(v) == v # None

\* the negation of `v not in ("cats", "dogs")`
VoteAccepted(v) == v # None /\ v[1] \in Options

Redirect(location) == [status |-> 302, location |-> location]

\* bug: the view catches the exception of the push and redirects all the same
ErrorRedirectsHome == Redirect("/")

\* Flask's answer to an exception that escapes a view
InternalServerError == [status |-> 500, html |-> "Internal Server Error"]

\* GET /
index ==
    /\ nreq' = nreq + 1
    /\ req' = [route |-> "index", form |-> <<>>]
    /\ resp' = [status |-> 200, html |-> "tpl"]
    /\ UNCHANGED <<queue, qid, redisUp, dbUp, tableExists, votes, pc, conn,
                   val, valId, popOk, txn, creating, timer, submitted,
                   accepted, delivered, faults, queue0, votes0>>

\* bug: the outcome of the ping is ignored
HealthAlwaysOk(pingOk) == [status |-> 200, json |-> [status |-> "ok"]]

\* what health() returns, given the outcome of r.ping()
HealthResponse(pingOk) ==
    IF pingOk
    THEN [status |-> 200, json |-> [status |-> "ok"]]
    ELSE [status |-> 500,
          json |-> [status |-> "error", detail |-> RedisErrorText]]

\* GET /health
health ==
    /\ nreq' = nreq + 1
    /\ req' = [route |-> "health", form |-> <<>>]
    /\ resp' = HealthResponse(redisUp)
    /\ UNCHANGED <<queue, qid, redisUp, dbUp, tableExists, votes, pc, conn,
                   val, valId, popOk, txn, creating, timer, submitted,
                   accepted, delivered, faults, queue0, votes0>>

\* POST /vote
vote(form) ==
    LET v == FormGet(form, "vote")
    IN  /\ nreq' = nreq + 1
        /\ req' = [route |-> "vote", form |-> form]
        /\ submitted' = [submitted EXCEPT ![v] = @ + 1]
        /\ IF ~VoteAccepted(v)
           THEN /\ resp' = Redirect("/")
                /\ UNCHANGED <<queue, qid, delivered, accepted>>
           ELSE IF redisUp
           THEN /\ queue' = LPush(queue, v[1])
                /\ qid' = PushHead(qid, Len(delivered) + 1)
                /\ delivered' = Append(delivered, <<>>)
                /\ accepted' = [accepted EXCEPT ![v[1]] = @ + 1]
                /\ resp' = Redirect("/")
           ELSE /\ resp' = InternalServerError
                /\ UNCHANGED <<queue, qid, delivered, accepted>>
        /\ UNCHANGED <<redisUp, dbUp, tableExists, votes, pc, conn, val,
                       valId, popOk, txn, creating, timer, faults,
                       queue0, votes0>>

-----------------------------------------------------------------------------
(* Tally worker (worker/worker.py) *)

\* bug: the worker tallies whatever it can decode
ChoiceAcceptsAnything(choice) == TRUE

\* choice in ("cats", "dogs")
ChoiceAccepted(choice) == choice \in Options

\* bug: DROP TABLE followed by CREATE TABLE, every start empties the tally
EnsureTableResets(exists, rows) == NoRows

\* bug: the start also inserts a zero row for every option that has none
EnsureTableSeeds(exists, rows) ==
    [o \in Options |-> IF exists /\ o \in DOMAIN rows THEN rows[o] ELSE 0]

\* CREATE TABLE IF NOT EXISTS votes: the rows after the statement
EnsureTableRows(exists, rows) == IF exists THEN rows ELSE NoRows

\* bug: ON CONFLICT(option) DO NOTHING, the count stays what it was
UpsertKeepsCount(rows, choice) ==
    IF choice \in DOMAIN rows THEN rows[choice] ELSE 1

\* bug: ON CONFLICT(option) DO UPDATE SET count = 1
UpsertResetsCount(rows, choice) == 1

\* bug: the conflict branch adds 2
UpsertCountsTwice(rows, choice) ==
    IF choice \in DOMAIN rows THEN rows[choice] + 2 ELSE 1

\* INSERT ... VALUES (choice, 1) ON CONFLICT(option) DO UPDATE
\* SET count = votes.count + 1: the count the statement writes
UpsertCount(rows, choice) ==
    IF choice \in DOMAIN rows THEN rows[choice] + 1 ELSE 1

\* bug: a SELECT followed by a separate write takes no lock before reading
RowNeverLocked(w, choice) == TRUE

\* The statement takes the row (or the unique-index entry) of its key and
\* waits while the open transaction of another session holds it.
RowLockFree(w, choice) ==
    \A x \in Workers \ {w} :
        IF txn[x] = None THEN TRUE ELSE txn[x][1].option # choice

\* conn.commit(): the written row becomes the committed one
CommitRow(rows, row) ==
    [o \in DOMAIN rows \cup {row.option} |->
        IF o = row.option THEN row.count ELSE rows[o]]

\* bug: get_conn without the loop, the first failure ends the process
get_conn_once(w) ==
    /\ pc[w] = "get_conn"
    /\ IF dbUp
       THEN /\ conn' = [conn EXCEPT ![w] = "open"]
            /\ pc' = [pc EXCEPT ![w] = "ensure_table"]
       ELSE /\ pc' = [pc EXCEPT ![w] = "crashed"]
            /\ UNCHANGED conn
    /\ UNCHANGED <<queue, qid, redisUp, dbUp, tableExists, votes, val, valId,
                   popOk, txn, creating, timer, nreq, req, resp,
                   submitted, accepted, delivered, faults, queue0,
                   votes0>>

\* get_conn: one pass of its while loop
get_conn(w) ==
    /\ pc[w] = "get_conn"
    /\ IF dbUp
       THEN /\ conn' = [conn EXCEPT ![w] = "open"]
            /\ pc' = [pc EXCEPT ![w] = "ensure_table"]
            /\ UNCHANGED timer
       ELSE /\ pc' = [pc EXCEPT ![w] = "conn_sleep"]
            /\ timer' = [timer EXCEPT ![w] = GetConnSleep]
            /\ UNCHANGED conn
    /\ UNCHANGED <<queue, qid, redisUp, dbUp, tableExists, votes, val, valId,
                   popOk, txn, creating, nreq, req, resp, submitted,
                   accepted, delivered, faults, queue0, votes0>>

\* one time unit of a time.sleep passes; the sleeper resumes when none is left
tick(w) ==
    /\ pc[w] \in {"conn_sleep", "sleep"}
    /\ timer' = [timer EXCEPT ![w] = @ - 1]
    /\ pc' = [pc EXCEPT ![w] =
                IF timer[w] > 1 THEN @
                ELSE IF @ = "conn_sleep" THEN "get_conn" ELSE "brpop"]
    /\ UNCHANGED <<queue, qid, redisUp, dbUp, tableExists, votes, conn, val,
                   valId, popOk, txn, creating, nreq, req, resp,
                   submitted, accepted, delivered, faults, queue0,
                   votes0>>

\* bug: a failure of ensure_table is swallowed and the loop is entered anyway
ensure_table_swallows(w) ==
    /\ pc[w] \in {"ensure_table", "ensure_wait"}
    /\ IF conn[w] # "open"
       THEN /\ pc' = [pc EXCEPT ![w] = "brpop"]
            /\ UNCHANGED <<conn, creating>>
       ELSE IF pc[w] = "ensure_table" /\ tableExists
       THEN /\ pc' = [pc EXCEPT ![w] = "ensure_commit"]
            /\ UNCHANGED <<conn, creating>>
       ELSE IF pc[w] = "ensure_table" /\ \E x \in Workers \ {w} : creating[x]
       THEN /\ pc' = [pc EXCEPT ![w] = "ensure_wait"]
            /\ UNCHANGED <<conn, creating>>
       ELSE /\ \A x \in Workers \ {w} : ~creating[x]
            /\ IF tableExists
               THEN /\ pc' = [pc EXCEPT ![w] = "brpop"]
                    /\ UNCHANGED <<conn, creating>>
               ELSE /\ creating' = [creating EXCEPT ![w] = TRUE]
                    /\ pc' = [pc EXCEPT ![w] = "ensure_commit"]
                    /\ UNCHANGED conn
    /\ UNCHANGED <<queue, qid, redisUp, dbUp, tableExists, votes, val, valId,
                   popOk, txn, timer, nreq, req, resp, submitted,
                   accepted, delivered, faults, queue0, votes0>>

\* ensure_table's cur.execute(CREATE TABLE IF NOT EXISTS ...), called outside
\* any try: an exception ends the process.  The statement does nothing when
\* the table is there.  When it is not, the statement creates it inside the
\* transaction it opens; while another session's transaction holds a table it
\* created and has not committed, the call waits ("ensure_wait") until that
\* transaction has ended: then the statement goes ahead (the other one was
\* aborted) or raises (the other one committed).
ensure_table(w) ==
    /\ pc[w] \in {"ensure_table", "ensure_wait"}
    /\ IF conn[w] # "open"
       THEN /\ pc' = [pc EXCEPT ![w] = "crashed"]
            /\ conn' = [conn EXCEPT ![w] = "none"]
            /\ UNCHANGED creating
       ELSE IF pc[w] = "ensure_table" /\ tableExists
       THEN /\ pc' = [pc EXCEPT ![w] = "ensure_commit"]
            /\ UNCHANGED <<conn, creating>>
       ELSE IF pc[w] = "ensure_table" /\ \E x \in Workers \ {w} : creating[x]
       THEN /\ pc' = [pc EXCEPT ![w] = "ensure_wait"]
            /\ UNCHANGED <<conn, creating>>
       ELSE /\ \A x \in Workers \ {w} : ~creating[x]
            /\ IF tableExists
               THEN /\ pc' = [pc EXCEPT ![w] = "crashed"]
                    /\ conn' = [conn EXCEPT ![w] = "none"]
                    /\ UNCHANGED creating
               ELSE /\ creating' = [creating EXCEPT ![w] = TRUE]
                    /\ pc' = [pc EXCEPT ![w] = "ensure_commit"]
                    /\ UNCHANGED conn
    /\ UNCHANGED <<queue, qid, redisUp, dbUp, tableExists, votes, val, valId,
                   popOk, txn, timer, nreq, req, resp, submitted,
                   accepted, delivered, faults, queue0, votes0>>

\* ensure_table's conn.commit(): a table the transaction created becomes
\* visible, empty; an exception ends the process
ensure_commit(w) ==
    /\ pc[w] = "ensure_commit"
    /\ IF conn[w] = "open"
       THEN /\ votes' = EnsureTableRows(~creating[w], votes)
            /\ tableExists' = TRUE
            /\ pc' = [pc EXCEPT ![w] = "brpop"]
            /\ UNCHANGED conn
       ELSE /\ pc' = [pc EXCEPT ![w] = "crashed"]
            /\ conn' = [conn EXCEPT ![w] = "none"]
            /\ UNCHANGED <<votes, tableExists>>
    /\ creating' = [creating EXCEPT ![w] = FALSE]
    /\ UNCHANGED <<queue, qid, redisUp, dbUp, val, valId, popOk, txn, timer,
                   nreq, req, resp, submitted, accepted, delivered,
                   faults, queue0, votes0>>

\* _, val = r.brpop("votes"): blocks while the list is empty, raises when the
\* queue store is unreachable
brpop(w) ==
    /\ pc[w] = "brpop"
    /\ IF ~redisUp
       THEN /\ pc' = [pc EXCEPT ![w] = "sleep"]
            /\ timer' = [timer EXCEPT ![w] = LoopSleep]
            /\ UNCHANGED <<queue, qid, val, valId, popOk, delivered>>
       ELSE /\ queue # <<>>
            /\ val' = [val EXCEPT ![w] = Some(BRPopValue(queue))]
            /\ valId' = [valId EXCEPT ![w] = BRPopValue(qid)]
            /\ popOk' = [popOk EXCEPT ![w] = dbUp]
            /\ delivered' = [delivered EXCEPT ![BRPopValue(qid)] = Append(@, w)]
            /\ queue' = BRPopRest(queue)
            /\ qid' = BRPopRest(qid)
            /\ pc' = [pc EXCEPT ![w] = "process"]
            /\ UNCHANGED timer
    /\ UNCHANGED <<redisUp, dbUp, tableExists, votes, conn, txn, creating,
                   nreq, req, resp, submitted, accepted, faults,
                   queue0, votes0>>

\* bug: no try/except around the body of the loop, an entry that does not
\* decode ends the process
process_unhandled(w) ==
    LET d == Utf8Decode(val[w][1])
    IN  /\ pc[w] = "process"
        /\ IF ~d.ok
           THEN /\ pc' = [pc EXCEPT ![w] = "crashed"]
                /\ UNCHANGED timer
                /\ val' = [val EXCEPT ![w] = None]
                /\ valId' = [valId EXCEPT ![w] = 0]
                /\ popOk' = [popOk EXCEPT ![w] = FALSE]
                /\ UNCHANGED <<conn, txn>>
           ELSE IF ~ChoiceAccepted(d.str)
           THEN /\ pc' = [pc EXCEPT ![w] = "brpop"]
                /\ val' = [val EXCEPT ![w] = None]
                /\ valId' = [valId EXCEPT ![w] = 0]
                /\ popOk' = [popOk EXCEPT ![w] = FALSE]
                /\ UNCHANGED <<conn, txn, timer>>
           ELSE IF conn[w] # "open" \/ ~tableExists
           THEN /\ pc' = [pc EXCEPT ![w] = "sleep"]
                /\ timer' = [timer EXCEPT ![w] = LoopSleep]
                /\ conn' = [conn EXCEPT ![w] = "broken"]
                /\ val' = [val EXCEPT ![w] = None]
                /\ valId' = [valId EXCEPT ![w] = 0]
                /\ popOk' = [popOk EXCEPT ![w] = FALSE]
                /\ UNCHANGED txn
           ELSE /\ RowLockFree(w, d.str)
                /\ txn' = [txn EXCEPT ![w] =
                             Some([option |-> d.str,
                                   count |-> UpsertCount(votes, d.str)])]
                /\ pc' = [pc EXCEPT ![w] = "commit"]
                /\ UNCHANGED <<conn, timer, val, valId, popOk>>
        /\ UNCHANGED <<queue, qid, redisUp, dbUp, tableExists, votes,
                       creating, nreq, req, resp, submitted,
                       accepted, delivered, faults, queue0,
                       votes0>>

\* val.decode, the membership test and increment_vote's cur.execute
process(w) ==
    LET d == Utf8Decode(val[w][1])
    IN  /\ pc[w] = "process"
        /\ IF ~d.ok
           THEN /\ pc' = [pc EXCEPT ![w] = "sleep"]
                /\ timer' = [timer EXCEPT ![w] = LoopSleep]
                /\ val' = [val EXCEPT ![w] = None]
                /\ valId' = [valId EXCEPT ![w] = 0]
                /\ popOk' = [popOk EXCEPT ![w] = FALSE]
                /\ UNCHANGED <<conn, txn>>
           ELSE IF ~ChoiceAccepted(d.str)
           THEN /\ pc' = [pc EXCEPT ![w] = "brpop"]
                /\ val' = [val EXCEPT ![w] = None]
                /\ valId' = [valId EXCEPT ![w] = 0]
                /\ popOk' = [popOk EXCEPT ![w] = FALSE]
                /\ UNCHANGED <<conn, txn, timer>>
           ELSE IF conn[w] # "open" \/ ~tableExists
           THEN /\ pc' = [pc EXCEPT ![w] = "sleep"]
                /\ timer' = [timer EXCEPT ![w] = LoopSleep]
                /\ conn' = [conn EXCEPT ![w] = "broken"]
                /\ val' = [val EXCEPT ![w] = None]
                /\ valId' = [valId EXCEPT ![w] = 0]
                /\ popOk' = [popOk EXCEPT ![w] = FALSE]
                /\ UNCHANGED txn
           ELSE /\ RowLockFree(w, d.str)
                /\ txn' = [txn EXCEPT ![w] =
                             Some([option |-> d.str,
                                   count |-> UpsertCount(votes, d.str)])]
                /\ pc' = [pc EXCEPT ![w] = "commit"]
                /\ UNCHANGED <<conn, timer, val, valId, popOk>>
        /\ UNCHANGED <<queue, qid, redisUp, dbUp, tableExists, votes,
                       creating, nreq, req, resp, submitted,
                       accepted, delivered, faults, queue0,
                       votes0>>

\* bug: the handler of a failed commit pushes the entry back on the list
commit_requeues(w) ==
    /\ pc[w] = "commit"
    /\ IF conn[w] = "open" /\ txn[w] # None
       THEN /\ votes' = CommitRow(votes, txn[w][1])
            /\ pc' = [pc EXCEPT ![w] = "brpop"]
            /\ UNCHANGED <<conn, timer, queue, qid>>
       ELSE /\ pc' = [pc EXCEPT ![w] = "sleep"]
            /\ timer' = [timer EXCEPT ![w] = LoopSleep]
            /\ conn' = [conn EXCEPT ![w] = "broken"]
            /\ queue' = PushHead(queue, val[w][1])
            /\ qid' = PushHead(qid, valId[w])
            /\ UNCHANGED votes
    /\ txn' = [txn EXCEPT ![w] = None]
    /\ val' = [val EXCEPT ![w] = None]
    /\ valId' = [valId EXCEPT ![w] = 0]
    /\ popOk' = [popOk EXCEPT ![w] = FALSE]
    /\ UNCHANGED <<redisUp, dbUp, tableExists, creating, nreq, req, resp,
                   submitted, accepted, delivered, faults, queue0,
                   votes0>>

\* increment_vote's conn.commit() and the print that follows it
commit(w) ==
    /\ pc[w] = "commit"
    /\ IF conn[w] = "open" /\ txn[w] # None
       THEN /\ votes' = CommitRow(votes, txn[w][1])
            /\ pc' = [pc EXCEPT ![w] = "brpop"]
            /\ UNCHANGED <<conn, timer>>
       ELSE /\ pc' = [pc EXCEPT ![w] = "sleep"]
            /\ timer' = [timer EXCEPT ![w] = LoopSleep]
            /\ conn' = [conn EXCEPT ![w] = "broken"]
            /\ UNCHANGED votes
    /\ txn' = [txn EXCEPT ![w] = None]
    /\ val' = [val EXCEPT ![w] = None]
    /\ valId' = [valId EXCEPT ![w] = 0]
    /\ popOk' = [popOk EXCEPT ![w] = FALSE]
    /\ UNCHANGED <<queue, qid, redisUp, dbUp, tableExists, creating, nreq,
                   req, resp, submitted, accepted, delivered, faults,
                   queue0, votes0>>

-----------------------------------------------------------------------------
(* Environment: outages of the two stores, and the worker process being     *)
(* killed and started again                                                  *)

redis_down ==
    /\ redisUp
    /\ redisUp' = FALSE
    /\ faults' = faults + 1
    /\ UNCHANGED <<queue, qid, dbUp, tableExists, votes, pc, conn, val, valId,
                   popOk, txn, creating, timer, nreq, req, resp,
                   submitted, accepted, delivered, queue0, votes0>>

redis_up ==
    /\ ~redisUp
    /\ redisUp' = TRUE
    /\ UNCHANGED <<queue, qid, dbUp, tableExists, votes, pc, conn, val, valId,
                   popOk, txn, creating, timer, nreq, req, resp,
                   submitted, accepted, delivered, faults, queue0,
                   votes0>>

\* the server goes away: its sessions end and their open transactions abort
db_down ==
    /\ dbUp
    /\ dbUp' = FALSE
    /\ faults' = faults + 1
    /\ conn' = [w \in Workers |-> IF conn[w] = "open" THEN "broken" ELSE conn[w]]
    /\ txn' = [w \in Workers |-> None]
    /\ creating' = [w \in Workers |-> FALSE]
    /\ popOk' = [w \in Workers |-> FALSE]
    /\ UNCHANGED <<queue, qid, redisUp, tableExists, votes, pc, val, valId,
                   timer, nreq, req, resp, submitted, accepted,
                   delivered, queue0, votes0>>

db_up ==
    /\ ~dbUp
    /\ dbUp' = TRUE
    /\ UNCHANGED <<queue, qid, redisUp, tableExists, votes, pc, conn, val,
                   valId, popOk, txn, creating, timer, nreq, req, resp,
                   submitted, accepted, delivered, faults, queue0,
                   votes0>>

\* the process is killed (or has ended) and main() starts again
restart(w) ==
    /\ pc[w] # "off"
    /\ faults' = faults + 1
    /\ pc' = [pc EXCEPT ![w] = "get_conn"]
    /\ conn' = [conn EXCEPT ![w] = "none"]
    /\ val' = [val EXCEPT ![w] = None]
    /\ valId' = [valId EXCEPT ![w] = 0]
    /\ popOk' = [popOk EXCEPT ![w] = FALSE]
    /\ txn' = [txn EXCEPT ![w] = None]
    /\ creating' = [creating EXCEPT ![w] = FALSE]
    /\ timer' = [timer EXCEPT ![w] = 0]
    /\ UNCHANGED <<queue, qid, redisUp, dbUp, tableExists, votes, nreq, req,
                   resp, submitted, accepted, delivered, queue0,
                   votes0>>

-----------------------------------------------------------------------------
(* Initial states *)

RECURSIVE SeqsUpTo(_, _)
SeqsUpTo(S, n) ==
    IF n = 0 THEN {<<>>}
    ELSE LET shorter == SeqsUpTo(S, n - 1)
         IN  shorter \cup {Append(q, e) : q \in {x \in shorter : Len(x) = n - 1},
                                          e \in S}

\* the rows an earlier run may have left in the table
InitRows == UNION {[D -> 1..MaxInitCount] : D \in SUBSET Options}

FormValues == {FormGet(f, "vote") : f \in Forms}

\* the state in which the given worker processes call main()
Start(q, exists, rows, running) ==
    /\ queue = q
    /\ qid = [i \in 1..Len(q) |-> i]
    /\ queue0 = q
    /\ tableExists = exists
    /\ votes = rows
    /\ votes0 = rows
    /\ pc = [w \in Workers |-> IF w \in running THEN "get_conn" ELSE "off"]
    /\ conn = [w \in Workers |-> "none"]
    /\ val = [w \in Workers |-> None]
    /\ valId = [w \in Workers |-> 0]
    /\ popOk = [w \in Workers |-> FALSE]
    /\ txn = [w \in Workers |-> None]
    /\ creating = [w \in Workers |-> FALSE]
    /\ timer = [w \in Workers |-> 0]
    /\ nreq = 0
    /\ req = [route |-> "none", form |-> <<>>]
    /\ resp = [status |-> 0]
    /\ submitted = [v \in FormValues |-> 0]
    /\ accepted = [o \in Options |-> 0]
    /\ delivered = [i \in 1..Len(q) |-> <<>>]
    /\ faults = 0

\* rows an earlier run left, or no table at all
InitTables ==
    {[exists |-> FALSE, rows |-> NoRows]}
    \cup {[exists |-> TRUE, rows |-> r] : r \in InitRows}

\* One worker, the intake and the faults of the environment; the list starts
\* empty.
Init ==
    /\ redisUp = TRUE
    /\ dbUp = TRUE
    /\ \E t \in InitTables : Start(<<>>, t.exists, t.rows, {1})

Worker(w) ==
    \/ get_conn(w)
    \/ tick(w)
    \/ ensure_table(w)
    \/ ensure_commit(w)
    \/ brpop(w)
    \/ process(w)
    \/ commit(w)

Next ==
    \/ nreq < MaxRequests /\ index
    \/ nreq < MaxRequests /\ health
    \/ nreq < MaxRequests /\ \E f \in Forms : vote(f)
    \/ \E w \in Workers : Worker(w)
    \/ faults < MaxFaults /\ redis_down
    \/ faults < MaxFaults /\ db_down
    \/ faults < MaxFaults /\ \E w \in Workers : restart(w)
    \/ redis_up
    \/ db_up

Spec == Init /\ [][Next]_vars

\* Two workers against a list that already holds entries; no intake, no faults.
InitDrain ==
    /\ redisUp = TRUE
    /\ dbUp = TRUE
    /\ \E q \in SeqsUpTo(RawEntries, MaxInitQueue), t \in InitTables :
          Start(q, t.exists, t.rows, Workers)

NextDrain == \E w \in Workers : Worker(w)

SpecDrain == InitDrain /\ [][NextDrain]_vars

\* POST /vote and two workers, from an empty list and no table; no faults.
InitNoFail ==
    /\ redisUp = TRUE
    /\ dbUp = TRUE
    /\ Start(<<>>, FALSE, NoRows, Workers)

NextNoFail ==
    \/ nreq < MaxVotes /\ \E f \in Forms : vote(f)
    \/ \E w \in Workers : get_conn(w)
    \/ \E w \in Workers : ensure_table(w)
    \/ \E w \in Workers : ensure_commit(w)
    \/ \E w \in Workers : brpop(w)
    \/ \E w \in Workers : process(w)
    \/ \E w \in Workers : commit(w)

SpecNoFail == InitNoFail /\ [][NextNoFail]_vars

\* One worker started while the persisted store is unreachable; the store
\* may become reachable and then stays so.  The worker process keeps running:
\* whenever it can take a step it eventually does.
InitStartup ==
    /\ redisUp = TRUE
    /\ dbUp = FALSE
    /\ \E q \in SeqsUpTo(RawEntries, MaxInitQueue), t \in InitTables :
          Start(q, t.exists, t.rows, {1})

NextStartup ==
    \/ Worker(1)
    \/ db_up

SpecStartup == InitStartup /\ [][NextStartup]_vars /\ WF_vars(Worker(1))

\* One worker against a list that already holds entries, some of them not
\* votes at all, while either store may go away and come back and the worker
\* process may be killed and started again; no intake.
InitFaulty ==
    /\ redisUp = TRUE
    /\ dbUp = TRUE
    /\ \E q \in SeqsUpTo(RawEntries, MaxBacklog), t \in InitTables :
          Start(q, t.exists, t.rows, {1})

NextFaulty ==
    \/ Worker(1)
    \/ faults < MaxFaults /\ redis_down
    \/ faults < MaxFaults /\ db_down
    \/ faults < MaxFaults /\ restart(1)
    \/ redis_up
    \/ db_up

SpecFaulty == InitFaulty /\ [][NextFaulty]_vars

\* One worker against such a list and a store without the table, with nobody
\* submitting and the queue store always reachable; only the persisted store
\* goes away and comes back.  The worker process is never killed and keeps
\* running: whenever it can take a step it eventually does.
InitSettle ==
    /\ redisUp = TRUE
    /\ dbUp = TRUE
    /\ \E q \in SeqsUpTo(RawEntries, MaxBacklog) :
          Start(q, FALSE, NoRows, {1})

NextSettle ==
    \/ Worker(1)
    \/ faults < MaxFaults /\ db_down
    \/ db_up

SpecSettle == InitSettle /\ [][NextSettle]_vars /\ WF_vars(Worker(1))

-----------------------------------------------------------------------------
(* Notions the properties below are stated in *)

\* the count of an option; no row counts as 0
Count(rows, o) == IF o \in DOMAIN rows THEN rows[o] ELSE 0

\* how many entries of the list q are the encoding of the string s
RECURSIVE Occurrences(_, _)
Occurrences(q, s) ==
    IF q = <<>> THEN 0
    ELSE (IF Head(q) = Utf8Encode(s) THEN 1 ELSE 0) + Occurrences(Tail(q), s)

\* nothing is left to process: the list is empty and no worker holds an entry
Drained == queue = <<>> /\ \A w \in Workers : val[w] = None

\* this step is the handling of a request to the given route
Handled(route) == nreq' = nreq + 1 /\ req'.route = route

\* the optional entry is there and is not one of the options (or is not text
\* at all)
Invalid(v) ==
    IF v = None THEN FALSE
    ELSE LET d == Utf8Decode(v[1]) IN ~d.ok \/ d.str \notin {Cats, Dogs}

-----------------------------------------------------------------------------
(* Properties *)

\* C1: a POST /vote whose value is cats or dogs puts exactly that value at the
\* head of the list, lengthening it by one, and answers with a redirect to /;
\* any other value, a missing field included, leaves the list as it was and
\* gets the identical redirect.
C1_VoteContract ==
    [][Handled("vote") =>
         LET f == req'.form
         IN  /\ resp' = [status |-> 302, location |-> "/"]
             /\ IF f # <<>> /\ f.vote \in {Cats, Dogs}
                THEN /\ Len(queue') = Len(queue) + 1
                     /\ queue' = <<Utf8Encode(f.vote)>> \o queue
                ELSE queue' = queue]_vars

\* both kinds of request were answered: an accepted cats vote, then a rejected
\* one
C1_Witness ==
    /\ nreq = 2
    /\ submitted[Some(Cats)] = 1
    /\ req = [route |-> "vote", form |-> [vote |-> Elephants]]
    /\ resp = [status |-> 302, location |-> "/"]
    /\ Len(delivered) = 1

\* C2: from an empty list and an empty tally, with no failures and under
\* every interleaving of submissions and worker steps, whenever the workers
\* have drained the list the count of each option is the number of
\* submissions that carried it, and only options submitted have a row.
C2_EndToEndTally ==
    Drained =>
        /\ \A o \in Options : Count(votes, o) = submitted[Some(o)]
        /\ DOMAIN votes = {o \in Options : submitted[Some(o)] > 0}

\* cats, cats, dogs and elephants were submitted, in some order, and drained
C2_Witness ==
    /\ Drained
    /\ submitted[Some(Cats)] = 2
    /\ submitted[Some(Dogs)] = 1
    /\ submitted[Some(Elephants)] = 1
    /\ DOMAIN votes = {Cats, Dogs}
    /\ votes[Cats] = 2
    /\ votes[Dogs] = 1

\* the list at the start is N entries, all of them the option o
AllVotesFor(q, o) == \A i \in 1..Len(q) : q[i] = Utf8Encode(o)

\* C3: a list of N >= 0 entries for one option, processed with no failures
\* from a table without a row for that option, ends in a count of exactly N
\* (no row when N = 0): while it is processed the count is the number of
\* entries committed so far, and each commit adds exactly one.
C3_CountIsN ==
    \A o \in Options :
        (AllVotesFor(queue0, o) /\ o \notin DOMAIN votes0) =>
            /\ Count(votes, o) + Len(queue)
                 + Cardinality({w \in Workers : val[w] # None}) = Len(queue0)
            /\ Drained => Count(votes, o) = Len(queue0)
            /\ (o \in DOMAIN votes) = (Count(votes, o) > 0)

\* three entries for cats were processed from a table without a cats row
C3_Witness ==
    /\ Drained
    /\ queue0 = <<Utf8Encode(Cats), Utf8Encode(Cats), Utf8Encode(Cats)>>
    /\ Cats \notin DOMAIN votes0
    /\ votes[Cats] = 3

\* C4: two workers that each process one of two votes for the same option
\* leave the count at the initial count plus 2 under every interleaving,
\* also when the row did not exist: at every moment the count plus the votes
\* not yet committed is the initial count plus 2.
C4_NoLostUpdate ==
    \A o \in Options :
        queue0 = <<Utf8Encode(o), Utf8Encode(o)>> =>
            /\ Count(votes, o) + Len(queue)
                 + Cardinality({w \in Workers : val[w] # None})
                 = Count(votes0, o) + 2
            /\ Drained => Count(votes, o) = Count(votes0, o) + 2

\* each worker popped one of the two dogs votes, there was no dogs row at the
\* start, and both have committed
C4_Witness ==
    /\ Drained
    /\ queue0 = <<Utf8Encode(Dogs), Utf8Encode(Dogs)>>
    /\ Dogs \notin DOMAIN votes0
    /\ delivered = <<<<1>>, <<2>>>>
    /\ Count(votes, Dogs) = 2

\* the two workers are in increment_vote for the same option at once: one
\* has executed its statement and not yet committed, the other waits
C4_Contended ==
    /\ queue0 = <<Utf8Encode(Dogs), Utf8Encode(Dogs)>>
    /\ pc[1] = "commit"
    /\ pc[2] = "process"

\* C5: the worker step that handles an entry outside {cats, dogs}, an
\* undecodable one included, changes no row and creates none, and the pop that
\* returned it has taken it off the list.
C5_InvalidEntryDiscarded ==
    [][\A w \in Workers :
         /\ (Invalid(val[w]) /\ pc'[w] # pc[w]) =>
                /\ votes' = votes
                /\ tableExists' = tableExists
                /\ queue' = queue
                /\ \A i \in 1..Len(qid) : qid[i] # valId[w]
         /\ (Invalid(val'[w]) /\ pc'[w] # pc[w]) =>
                /\ votes' = votes
                /\ Len(queue') = Len(queue) - 1
                /\ \A i \in 1..Len(qid') : qid'[i] # valId'[w]]_vars

\* an undecodable entry and an elephants entry were both popped and dropped
\* next to a counted dogs vote
C5_Witness ==
    /\ Drained
    /\ queue0 = <<BadBytes, Utf8Encode(Dogs), Utf8Encode(Elephants)>>
    /\ votes0 = NoRows
    /\ DOMAIN votes = {Dogs}
    /\ votes[Dogs] = 1

\* the table exists and every entry of the initial list was popped once and,
\* if it was a vote for an option, added to that option's count
StartupDone ==
    /\ tableExists
    /\ Drained
    /\ pc[1] = "brpop"
    /\ \A i \in 1..Len(queue0) : Len(delivered[i]) = 1
    /\ \A o \in Options :
          Count(votes, o) = Count(votes0, o) + Occurrences(queue0, o)

\* C6: a worker started while the persisted store is unreachable stays in
\* get_conn, sleeping the same 2 time units after every failed attempt, and
\* takes nothing off the list; once the store is reachable and stays so, the
\* worker eventually has created the table and processed every entry that
\* was on the list.
C6_StartupRetries ==
    /\ [](~dbUp => /\ pc[1] \in {"get_conn", "conn_sleep"}
                   /\ queue = queue0
                   /\ ~tableExists => votes = NoRows)
    /\ [][(pc[1] = "get_conn" /\ pc'[1] # pc[1]) =>
              IF dbUp THEN pc'[1] = "ensure_table"
              ELSE pc'[1] = "conn_sleep" /\ timer'[1] = 2]_vars
    /\ [][(pc[1] = "conn_sleep") =>
              (pc'[1] = "get_conn" \/ (pc'[1] = "conn_sleep" /\ timer'[1] > 0))]_vars
    /\ (dbUp ~> StartupDone)

\* started without a table while the store was unreachable, the worker has
\* counted the two cats votes that were waiting and dropped the bad entry
C6_Witness ==
    /\ StartupDone
    /\ queue0 = <<Utf8Encode(Cats), BadBytes, Utf8Encode(Cats)>>
    /\ votes0 = NoRows
    /\ votes[Cats] = 2

\* C7: every count is a natural number at all times; no step deletes a row
\* or lowers a count, whether it is a request, a worker step, an error, an
\* outage, a restart of the worker or its ensure_table running again; the
\* table is never dropped; and the commit of a vote leaves a row for its
\* option with a count of at least 1.
C7_CountsNeverDecrease ==
    /\ [](\A o \in DOMAIN votes : votes[o] \in Nat)
    /\ [][/\ DOMAIN votes \subseteq DOMAIN votes'
          /\ \A o \in DOMAIN votes : votes'[o] >= votes[o]
          /\ tableExists => tableExists'
          /\ \A w \in Workers :
                (pc[w] = "commit" /\ pc'[w] = "brpop") =>
                    /\ txn[w][1].option \in DOMAIN votes'
                    /\ votes'[txn[w][1].option] >= 1]_vars

\* of two accepted cats votes one was committed on top of the row an earlier
\* run left and one was lost to a kill of the worker, which then ran
\* get_conn and ensure_table again: the connection is open although a vote
\* was lost
C7_Witness ==
    /\ Len(delivered) = 2
    /\ Drained
    /\ pc[1] = "brpop"
    /\ conn[1] = "open"
    /\ votes0 = [o \in {Cats} |-> 1]
    /\ submitted[Some(Cats)] = 2
    /\ votes = [o \in {Cats} |-> 2]

\* C8: GET /health answers 200 with {status: "ok"} when the ping of the queue
\* store succeeds and 500 with {status: "error", detail: <non-empty text>}
\* when it fails, and changes neither the list nor the tally.
C8_HealthProbe ==
    [][Handled("health") =>
         /\ redisUp => resp' = [status |-> 200, json |-> [status |-> "ok"]]
         /\ ~redisUp => /\ resp'.status = 500
                        /\ resp'.json.status = "error"
                        /\ resp'.json.detail # ""
         /\ queue' = queue
         /\ votes' = votes
         /\ tableExists' = tableExists]_vars

\* a health request was answered while the queue store was unreachable
C8_Witness ==
    /\ req.route = "health"
    /\ resp.status = 500
    /\ resp.json.status = "error"
    /\ ~redisUp

\* C9: with two workers popping the same list while the intake pushes, no
\* entry is returned by two pops: an entry still on the list was returned by
\* none, an entry no longer on it by exactly one, no entry is on the list
\* twice and the workers never hold the same entry.
C9_PoppedOnce ==
    /\ \A i \in 1..Len(delivered) :
          IF \E k \in 1..Len(qid) : qid[k] = i
          THEN delivered[i] = <<>>
          ELSE Len(delivered[i]) = 1
    /\ \A k, l \in 1..Len(qid) : qid[k] = qid[l] => k = l
    /\ \A w, x \in Workers :
          (valId[w] # 0 /\ valId[w] = valId[x]) => w = x
    /\ \A w \in Workers : valId[w] # 0 => delivered[valId[w]] = <<w>>

\* both workers hold an entry at once while a third waits on the list
C9_Witness ==
    /\ pc[1] = "process"
    /\ pc[2] = "process"
    /\ valId[1] # valId[2]
    /\ Len(queue) = 1

\* C10: a POST /vote with cats or dogs handled while the queue store is
\* unreachable is answered with an error, not the redirect, and leaves the
\* list as it was; a valid vote answered with the redirect is on the list.
C10_NoSilentDrop ==
    [][(Handled("vote") /\ req'.form # <<>> /\ req'.form.vote \in {Cats, Dogs}) =>
         /\ ~redisUp => /\ resp'.status = 500
                        /\ resp' # [status |-> 302, location |-> "/"]
                        /\ queue' = queue
         /\ resp'.status = 302 =>
                queue' = <<Utf8Encode(req'.form.vote)>> \o queue]_vars

\* a cats vote arrived while the queue store was unreachable and got the
\* error answer
C10_Witness ==
    /\ req = [route |-> "vote", form |-> [vote |-> Cats]]
    /\ resp.status = 500
    /\ ~redisUp
    /\ Len(delivered) = 0

\* the worker holds an entry whose processing raises in the step it is at:
\* the entry is not text, or it is a vote and the store connection is unusable
ProcessingFails(w) ==
    /\ pc[w] \in {"process", "commit"}
    /\ IF Invalid(val[w])
       THEN ~Utf8Decode(val[w][1]).ok
       ELSE IF pc[w] = "process"
       THEN conn[w] # "open" \/ ~tableExists
       ELSE conn[w] # "open" \/ txn[w] = None

\* this step is taken by the running worker process w itself
WorkerStep(w) == pc'[w] # pc[w] /\ faults' = faults

\* C11: when processing a dequeued entry raises (the entry does not decode, or
\* the store write fails), the worker starts the backoff of one time unit with
\* the list and the tally as they were and the entry gone for good; when the
\* backoff is over it is back at the blocking pop; no step of the loop ends
\* the process.
C11_ErrorBackoff ==
    [][/\ (ProcessingFails(1) /\ WorkerStep(1)) =>
             /\ pc'[1] = "sleep" /\ timer'[1] = 1
             /\ queue' = queue /\ qid' = qid
             /\ votes' = votes
             /\ val'[1] = None /\ txn'[1] = None
       /\ (pc[1] = "sleep" /\ WorkerStep(1)) => (timer[1] = 1 /\ pc'[1] = "brpop")
       /\ (pc[1] \in {"brpop", "process", "commit", "sleep"}) =>
             pc'[1] \notin {"crashed", "off"}
       /\ \A k \in 1..Len(qid') : delivered'[qid'[k]] = <<>>]_vars

\* an entry that is not text and then a vote have both failed, the second one
\* on the store, and the worker is in its backoff
C11_Witness ==
    /\ queue0 = <<Utf8Encode(Cats), BadBytes>>
    /\ queue = <<>>
    /\ delivered = << <<1>>, <<1>> >>
    /\ pc[1] = "sleep" /\ timer[1] = 1
    /\ conn[1] = "broken"
    /\ val[1] = None
    /\ votes = votes0

\* how many entries of the list q are votes
Votes(q) == Occurrences(q, Cats) + Occurrences(q, Dogs)

\* how many votes the table has tallied since the start
Tallied == (Count(votes, Cats) - Count(votes0, Cats))
             + (Count(votes, Dogs) - Count(votes0, Dogs))

\* worker 1 holds an entry of the initial list, and of the votes popped before
\* it at least one was not tallied
EarlierVoteLost ==
    /\ val[1] # None
    /\ Tallied < Votes(SubSeq(queue0, Len(queue) + 2, Len(queue0)))

\* C12: an outage of the persisted store costs the worker only the entry it
\* was processing.  Once a vote has been lost, a valid vote that the worker
\* pops with the store reachable, and processes with the store reachable ever
\* since, does not end in the error handler but is tallied.
C12_LaterVotesTallied ==
    [][(/\ EarlierVoteLost
        /\ popOk[1] /\ ~Invalid(val[1])
        /\ WorkerStep(1)) =>
          /\ pc'[1] # "sleep"
          /\ pc[1] = "commit" =>
                Count(votes', Utf8Decode(val[1][1]).str)
                  = Count(votes, Utf8Decode(val[1][1]).str) + 1]_vars

\* C13: delivery is at most once.  For each option, what the table has tallied
\* since the start plus the option's entries still on the list never exceeds
\* the number of votes for it that the intake pushed: no vote is counted
\* twice, and a vote whose worker stopped between pop and commit stays lost.
C13_AtMostOnce ==
    \A o \in Options :
        (Count(votes, o) - Count(votes0, o)) + Occurrences(queue, o)
            <= accepted[o]

\* a cats vote was pushed and popped, the worker was killed before its commit
\* and has started again: nothing is left to process and cats was not tallied
C13_Witness ==
    /\ accepted[Cats] = 1
    /\ Drained
    /\ faults = 1 /\ redisUp /\ dbUp
    /\ pc[1] = "brpop" /\ conn[1] = "open"
    /\ delivered = << <<1>> >>
    /\ Count(votes, Cats) = Count(votes0, Cats)

\* the worker process w is between its start and the end of ensure_table
Connecting(w) ==
    pc[w] \in {"get_conn", "conn_sleep", "ensure_table", "ensure_wait",
              "ensure_commit"}

\* C14: the worker removes nothing from the list before it is ready.  A step
\* that shortens the list is a pop of the worker at brpop, holding the store
\* connection it obtained, with the table in place; while the worker is
\* connecting or ensuring the table it holds no entry and every entry of the
\* list stays where it is, whatever is pushed in front of it.
C14_NoPopBeforeReady ==
    [][/\ Len(queue') < Len(queue) =>
             /\ pc[1] = "brpop" /\ pc'[1] = "process"
             /\ conn[1] # "none"
             /\ tableExists
       /\ Connecting(1) =>
             /\ val'[1] = None
             /\ Len(queue') >= Len(queue)
             /\ SubSeq(queue', Len(queue') - Len(queue) + 1, Len(queue'))
                  = queue]_vars

\* the store went away before the worker could connect; two votes pushed
\* since then wait on the list while the worker sleeps between attempts
C14_Witness ==
    /\ ~dbUp
    /\ pc[1] = "conn_sleep" /\ conn[1] = "none"
    /\ queue = <<Utf8Encode(Dogs), Utf8Encode(Cats)>>
    /\ delivered = << <<>>, <<>> >>
    /\ val[1] = None

\* this step kills the worker process w and starts it again
Restarted(w) == faults' = faults + 1 /\ pc'[w] = "get_conn"

\* C15: ensure_table is idempotent.  Run against a table that exists it leaves
\* the table in place with every row and count as it was, and on a store
\* without the table it creates an empty one; a kill of the worker, and every
\* step of the startup that follows, leaves the rows unchanged, so no number
\* of restarts resets or alters the tally.
C15_EnsureTableIdempotent ==
    [][/\ (pc[1] = "ensure_commit" /\ pc'[1] = "brpop") =>
             /\ tableExists'
             /\ votes' = IF tableExists THEN votes ELSE NoRows
       /\ (Restarted(1) \/ Connecting(1)) =>
             (tableExists => (tableExists' /\ votes' = votes))]_vars

\* the table held a row for each option when the worker started; a dogs vote
\* was popped, the worker was killed before the commit, and it has run
\* get_conn and ensure_table again: the rows are those of the start
C15_Witness ==
    /\ votes0 = [o \in {Cats, Dogs} |-> 1]
    /\ accepted[Dogs] = 1
    /\ delivered = << <<1>> >>
    /\ Drained
    /\ pc[1] = "brpop" /\ conn[1] = "open" /\ dbUp
    /\ faults >= 1
    /\ votes = votes0

\* C16: the hand-off is first in, first out.  The intake puts each accepted
\* vote at the head of the list, in front of every entry accepted before it,
\* and the single worker pops from the tail: the entry a pop returns was
\* accepted before every entry that stays on the list, so entries leave in
\* exactly the order in which they came.  (Identities are given out in the
\* order of acceptance.)
C16_Fifo ==
    [][/\ Handled("vote") /\ Len(queue') > Len(queue) =>
             /\ Tail(queue') = queue /\ Tail(qid') = qid
             /\ \A k \in 1..Len(qid) : qid'[1] > qid[k]
       /\ (pc[1] = "brpop" /\ pc'[1] = "process") =>
             /\ val'[1] = Some(queue[Len(queue)])
             /\ valId'[1] = qid[Len(qid)]
             /\ queue' = SubSeq(queue, 1, Len(queue) - 1)
             /\ \A k \in 1..Len(qid') : qid'[k] > valId'[1]]_vars

\* cats was accepted first and dogs second; the worker holds cats while dogs
\* is still on the list
C16_Witness ==
    /\ accepted = [o \in Options |-> 1]
    /\ valId[1] = 1 /\ val[1] = Some(Utf8Encode(Cats))
    /\ qid = <<2>> /\ queue = <<Utf8Encode(Dogs)>>

\* the status the intake answers a request with: the request and the outcome
\* of talking to the queue store decide it, the table plays no part
IntakeStatus(request, queueOk) ==
    IF request.route = "index" THEN 200
    ELSE IF request.route = "health" THEN (IF queueOk THEN 200 ELSE 500)
    ELSE IF request.form = <<>> THEN 302
    ELSE IF request.form.vote \notin {Cats, Dogs} THEN 302
    ELSE IF queueOk THEN 302 ELSE 500

\* C17: the intake and the tally do not touch each other.  A request to /,
\* /health or /vote leaves the table and its rows as they were and is answered
\* by what the request and the queue store alone decide.  Every other step
\* either leaves the list alone or is the worker's pop, which removes exactly
\* the one entry at the tail; the worker's steps after the pop leave the list
\* as it is, also when processing fails, so nothing but the intake appends.
C17_Frames ==
    [][/\ nreq' # nreq =>
             /\ votes' = votes /\ tableExists' = tableExists
             /\ resp'.status = IntakeStatus(req', redisUp)
       /\ nreq' = nreq =>
             \/ queue' = queue
             \/ /\ pc[1] = "brpop" /\ pc'[1] = "process"
                /\ queue # <<>>
                /\ queue' = SubSeq(queue, 1, Len(queue) - 1)
       /\ (pc[1] = "brpop" /\ pc'[1] = "process") =>
             Len(queue') = Len(queue) - 1
       /\ (WorkerStep(1) /\ pc[1] \in {"process", "commit", "sleep"}) =>
             queue' = queue]_vars

\* two requests were handled; of the two votes pushed the worker popped the
\* first, failed to write it and is in its backoff, with the second vote
\* still on the list and the rows as they were at the start
C17_Witness ==
    /\ nreq = 2
    /\ delivered = << <<1>>, <<>> >>
    /\ Len(queue) = 1 /\ qid = <<2>>
    /\ pc[1] = "sleep" /\ conn[1] = "broken"
    /\ val[1] = None
    /\ votes = votes0

\* the worker process w is in its loop
Ready(w) == pc[w] \in {"brpop", "process", "commit", "sleep"}

\* C18: with nobody submitting and the queue store reachable, a worker that
\* has reached its loop eventually has popped every entry and from then on
\* stays blocked at the pop of the empty list, whatever the entries are and
\* also when every store write fails.
C18_EventuallyDrained ==
    Ready(1) ~> [](Drained /\ pc[1] = "brpop")

\* the list held two votes; the store went away, every write failed, and the
\* worker is back at the pop of the empty list with the rows of the start
C18_Witness ==
    /\ queue0 = <<Utf8Encode(Dogs), Utf8Encode(Cats)>>
    /\ delivered = << <<1>>, <<1>> >>
    /\ Drained
    /\ pc[1] = "brpop" /\ conn[1] = "broken"
    /\ votes = votes0

TypeOK ==
    /\ Len(qid) = Len(queue)
    /\ \A w \in Workers : pc[w] \in WorkerPcs
    /\ \A w \in Workers : conn[w] \in {"none", "open", "broken"}
    /\ \A w \in Workers : creating[w] => (pc[w] = "ensure_commit" /\ ~tableExists)

====
